---- MODULE Spec2Model ----
(***************************************************************************)
(* Model of pdf_compressor.py: a command-line driver that shells out to    *)
(* Ghostscript, trying the presets printer, ebook, screen in that order    *)
(* until the produced file is smaller than the input.                      *)
(*                                                                         *)
(* The program state is main()'s locals and its position (pc).  The world  *)
(* is the file system at the two paths the program touches and the         *)
(* behaviour of the external engine.  History variables (subprocs,         *)
(* removed, out, attempts, checked, measured) record what the run did.     *)
(***************************************************************************)
EXTENDS Integers, Sequences, FiniteSets, TLC

VARIABLES
    argc,            \* len(sys.argv)
    argv1,           \* sys.argv[1], a path (sequence of characters)
    gsEnv,           \* what invoking the engine with --version does
    engine,          \* engine behaviour per -dPDFSETTINGS value, fixed once observed
    fs,              \* file system: path -> Absent or a file
    pc,              \* position in main()
    i,               \* index of the for loop over quality_levels
    input_pdf,       \* main() local
    output_pdf,      \* main() local
    original_size,   \* main() local
    compressed_size, \* main() local
    reduction,       \* main() local
    success,         \* main() local
    subprocs,        \* subprocess.run calls of this run, in order
    removed,         \* os.remove calls of this run, in order
    out,             \* lines printed by this run (message tags), in order
    attempts,        \* compress_pdf calls of this run and what the engine did
    checked,         \* paths given to check_pdf in this run
    measured,        \* paths given to get_file_size in this run
    result,          \* how the run ended
    run,             \* number of the current run of main()
    fs0,             \* the file system when the current run started
    prev             \* how the previous run ended

vars == <<argc, argv1, gsEnv, engine, fs, pc, i, input_pdf, output_pdf,
          original_size, compressed_size, reduction, success, subprocs,
          removed, out, attempts, checked, measured, result, run, fs0, prev>>

-----------------------------------------------------------------------------
(* Bounds *)

MaxStemLen == 1
MaxSize == 2
MaxRuns == 2

-----------------------------------------------------------------------------
(* Strings are sequences of one-character strings. *)

Str_pdf == <<".", "p", "d", "f">>
Str_compressed_pdf ==
    <<"_", "c", "o", "m", "p", "r", "e", "s", "s", "e", "d">> \o Str_pdf
Str_10_04 == <<"1", "0", ".", "0", "4">>

LowerChar(c) ==
    CASE c = "P" -> "p"
      [] c = "D" -> "d"
      [] c = "F" -> "f"
      [] c = "T" -> "t"
      [] c = "X" -> "x"
      [] OTHER -> c

\* str.lower()
Lower(s) == [k \in 1..Len(s) |-> LowerChar(s[k])]

\* str.endswith(suffix)
EndsWith(s, suffix) ==
    /\ Len(suffix) <= Len(s)
    /\ SubSeq(s, Len(s) - Len(suffix) + 1, Len(s)) = suffix

\* str.startswith(prefix)
StartsWith(s, prefix) ==
    /\ Len(prefix) <= Len(s)
    /\ SubSeq(s, 1, Len(prefix)) = prefix

IsSpace(c) == c \in {" ", "\n", "\t"}

\* str.strip(): leading and trailing whitespace removed
Strip(s) ==
    LET solid == {k \in 1..Len(s) : ~IsSpace(s[k])}
    IN  IF solid = {} THEN <<>>
        ELSE SubSeq(s, CHOOSE k \in solid : \A m \in solid : k <= m,
                       CHOOSE k \in solid : \A m \in solid : m <= k)

\* str.rfind(ch): the last (1-based) position of ch in s, 0 when absent
RFind(s, ch) ==
    LET hits == {k \in 1..Len(s) : s[k] = ch}
    IN  IF hits = {} THEN 0 ELSE CHOOSE k \in hits : \A m \in hits : m <= k

\* os.path.splitext(p)[0]: the extension starts at the last dot of the last
\* path component, unless that component has only dots before it.
SplitextRoot(p) ==
    LET sepIndex == RFind(p, "/")
        dotIndex == RFind(p, ".")
    IN  IF dotIndex > sepIndex
           /\ \E k \in (sepIndex + 1)..(dotIndex - 1) : p[k] # "."
        THEN SubSeq(p, 1, dotIndex - 1)
        ELSE p

\* A mutant of OutputPath: the suffix is forgotten when the extension is
\* re-attached.
OutputPathSameExt(p) == SplitextRoot(p) \o SubSeq(p, Len(SplitextRoot(p)) + 1, Len(p))

\* line 130
OutputPath(p) == SplitextRoot(p) \o Str_compressed_pdf

-----------------------------------------------------------------------------
(* The world *)

StemChars == {"a", ".", "/"}

RECURSIVE SeqsUpTo(_, _)
SeqsUpTo(S, n) ==
    IF n = 0 THEN {<<>>}
    ELSE LET shorter == SeqsUpTo(S, n - 1)
         IN  shorter \cup {Append(s, c) : s \in shorter, c \in S}

Suffixes ==
    { Str_pdf,
      <<".", "P", "D", "F">>,
      <<".", "P", "d", "f">>,
      <<".", "t", "x", "t">>,
      <<"p", "d", "f">>,
      Str_pdf \o <<".", "x">>,
      Str_compressed_pdf,
      <<>> }

Paths == {stem \o suffix : stem \in SeqsUpTo(StemChars, MaxStemLen), suffix \in Suffixes}

Sizes == 0..MaxSize

Absent == [exists |-> FALSE]
File(size, r, by) == [exists |-> TRUE, size |-> size, run |-> r, by |-> by]
UserFiles == {File(s, 0, "user") : s \in Sizes}

\* What the engine can print on standard output for --version.
Stdouts ==
    { Str_10_04 \o <<".", "0", "\n">>,
      Str_10_04 \o <<"\n">>,
      <<"1", "0", ".", "0", "3", ".", "0", "\n">>,
      <<" ", "1", "0", ".", "0", "4">>,
      <<>> }

\* What subprocess.run([gs_binary, '--version']) can do: raise
\* FileNotFoundError, raise another exception, or return with a stdout.
GsEnvs ==
    {[kind |-> "FileNotFoundError", stdout |-> <<>>],
     [kind |-> "Exception", stdout |-> <<>>]}
    \cup {[kind |-> "runs", stdout |-> v] : v \in Stdouts}

\* What subprocess.run(gs_command, check=True) can do: return after the
\* engine exited 0 having written the output file; raise CalledProcessError
\* after the engine exited non-zero, leaving either nothing new or a
\* partial file at the output path; or raise another exception because the
\* process could not be started.
Outcomes ==
    {[raised |-> "none", writes |-> TRUE, size |-> s] : s \in Sizes}
    \cup {[raised |-> "CalledProcessError", writes |-> TRUE, size |-> s] : s \in Sizes}
    \cup {[raised |-> "CalledProcessError", writes |-> FALSE, size |-> 0]}
    \cup {[raised |-> "Exception", writes |-> FALSE, size |-> 0]}

-----------------------------------------------------------------------------
(* Pure helpers of the program *)

MB == 1024 * 1024

\* lines 6-10
check_pdf(file_path) ==
    IF ~fs[file_path].exists THEN FALSE
    ELSE EndsWith(Lower(file_path), Str_pdf)

\* lines 12-14: bytes / (1024 * 1024), kept as an exact fraction
get_file_size(file_path) == [bytes |-> fs[file_path].size, per |-> MB]

\* a < b on the fractions get_file_size returns
Less(a, b) == a.bytes * b.per < b.bytes * a.per

\* line 147
Accepts(compressed, original) == Less(compressed, original)

\* line 145: ZeroDivisionError when original_size is 0
ReductionRaises(original) == original.bytes = 0

\* line 145: (original - compressed) / original * 100, as a fraction
Reduction(original, compressed) ==
    [num |-> (original.bytes * compressed.per - compressed.bytes * original.per) * 100,
     den |-> original.bytes * compressed.per]

\* line 138
quality_levels == <<"printer", "ebook", "screen">>

\* lines 69-73 and 83: quality_settings.get(quality, '/printer')
quality_settings(quality) ==
    CASE quality = "printer" -> "/printer"
      [] quality = "ebook" -> "/ebook"
      [] quality = "screen" -> "/screen"
      [] OTHER -> "/printer"

\* A mutant of VersionOk: only the major version is compared.
VersionOkMajorOnly(version) == StartsWith(version, <<"1", "0">>)

\* lines 39 and 48
VersionOk(version) == StartsWith(version, Str_10_04)

NoSize == [bytes |-> 0, per |-> MB]
NoReduction == [num |-> 0, den |-> 1]
NoRun == [result |-> "none", quality |-> "none"]

-----------------------------------------------------------------------------
(* Initial state: main() is about to start. *)

Init ==
    /\ argc \in 1..3
    /\ argv1 \in Paths
    /\ gsEnv \in GsEnvs
    /\ engine = <<>>
    /\ fs \in [{argv1, OutputPath(argv1)} -> {Absent} \cup UserFiles]
    /\ pc = "start"
    /\ i = 1
    /\ input_pdf = <<>>
    /\ output_pdf = <<>>
    /\ original_size = NoSize
    /\ compressed_size = NoSize
    /\ reduction = NoReduction
    /\ success = FALSE
    /\ subprocs = <<>>
    /\ removed = <<>>
    /\ out = <<>>
    /\ attempts = <<>>
    /\ checked = <<>>
    /\ measured = <<>>
    /\ result = "running"
    /\ run = 1
    /\ fs0 = fs
    /\ prev = NoRun

world == <<argc, argv1, gsEnv, run, fs0, prev>>
locals == <<i, input_pdf, output_pdf, original_size, compressed_size,
            reduction, success>>

-----------------------------------------------------------------------------
(* Actions *)

\* lines 116-119
CheckArgs ==
    /\ pc = "start"
    /\ IF argc # 2
       THEN /\ out' = out \o <<"usage">>
            /\ pc' = "done"
            /\ result' = "Usage"
       ELSE /\ pc' = "check_gs"
            /\ UNCHANGED <<out, result>>
    /\ UNCHANGED <<world, locals, engine, fs, subprocs, removed, attempts,
                   checked, measured>>

\* lines 30-59 and 121-122
check_ghostscript ==
    /\ pc = "check_gs"
    /\ subprocs' = Append(subprocs, [flag |-> "--version", outp |-> <<>>, inp |-> <<>>,
                                     started |-> gsEnv.kind = "runs"])
    /\ CASE gsEnv.kind = "FileNotFoundError" ->
              /\ out' = out \o <<"gs_not_found">>
              /\ pc' = "done"
              /\ result' = "EngineAbort"
         [] gsEnv.kind = "Exception" ->
              /\ out' = out \o <<"gs_error">>
              /\ pc' = "done"
              /\ result' = "EngineAbort"
         [] OTHER ->
              IF ~VersionOk(Strip(gsEnv.stdout))
              THEN /\ out' = out \o <<"gs_version_warning">>
                   /\ pc' = "done"
                   /\ result' = "EngineAbort"
              ELSE /\ pc' = "check_pdf"
                   /\ UNCHANGED <<out, result>>
    /\ UNCHANGED <<world, locals, engine, fs, removed, attempts, checked, measured>>

\* lines 124-128
CheckInput ==
    /\ pc = "check_pdf"
    /\ input_pdf' = argv1
    /\ checked' = Append(checked, argv1)
    /\ IF ~check_pdf(argv1)
       THEN /\ out' = out \o <<"invalid_input">>
            /\ pc' = "done"
            /\ result' = "InvalidInput"
       ELSE /\ pc' = "prepare"
            /\ UNCHANGED <<out, result>>
    /\ UNCHANGED <<world, i, output_pdf, original_size, compressed_size,
                   reduction, success, engine, fs, subprocs, removed, attempts,
                   measured>>

\* lines 130-139
Prepare ==
    /\ pc = "prepare"
    /\ output_pdf' = OutputPath(input_pdf)
    /\ original_size' = get_file_size(input_pdf)
    /\ measured' = Append(measured, input_pdf)
    /\ out' = out \o <<"original_size", "compressing">>
    /\ success' = FALSE
    /\ i' = 1
    /\ pc' = "loop"
    /\ UNCHANGED <<world, input_pdf, compressed_size, reduction, engine, fs,
                   subprocs, removed, attempts, checked, result>>

\* Where the for loop goes after the body ran for index k without break.
AfterBody(k) == IF k + 1 > Len(quality_levels) THEN "report" ELSE "loop"

\* A mutant of compress_pdf's result handling: a failed engine run is run
\* again instead of moving on.
StayOnFailure(k) == k

\* lines 141 and 143: the loop variable after compress_pdf returned False
NextOnFailure(k) == k + 1

\* lines 61-113, called from lines 141-143 with the next quality level
compress_pdf(input_path, output_path, quality) ==
    /\ pc = "loop"
    /\ \E o \in Outcomes :
        LET setting == quality_settings(quality) IN
        /\ setting \in DOMAIN engine => o = engine[setting]
        /\ engine' = IF setting \in DOMAIN engine THEN engine
                     ELSE (setting :> o) @@ engine
        /\ subprocs' = Append(subprocs,
                              [flag |-> setting, outp |-> output_path, inp |-> input_path,
                               started |-> o.raised # "Exception"])
        /\ fs' = IF o.writes
                 THEN [fs EXCEPT ![output_path] = File(o.size, run, quality)]
                 ELSE fs
        /\ attempts' = Append(attempts,
                              [quality |-> quality, ok |-> o.raised = "none",
                               wrote |-> o.writes, size |-> o.size])
        /\ IF o.raised = "none"
           THEN /\ out' = out \o <<"trying">>
                /\ pc' = "compare"
                /\ i' = i
           ELSE /\ out' = out \o <<"trying",
                                   IF o.raised = "CalledProcessError"
                                   THEN "gs_exec_error" ELSE "error">>
                /\ i' = NextOnFailure(i)
                /\ pc' = IF NextOnFailure(i) > Len(quality_levels) THEN "report" ELSE "loop"
    /\ UNCHANGED <<world, input_pdf, output_pdf, original_size, compressed_size,
                   reduction, success, removed, checked, measured, result>>

\* A mutant of RejectedFs: the file removed is the input, not the output.
RejectedFsInput(path) == [fs EXCEPT ![input_pdf] = Absent]

\* line 157: os.remove(output_pdf)
RejectedFs(path) == [fs EXCEPT ![path] = Absent]

\* A mutant of AfterAccept: the loop goes on after a success (no break).
AfterAcceptNoBreak(k) == AfterBody(k)

\* line 154: break
AfterAccept(k) == "report"

\* lines 144-157
CompareSizes ==
    /\ pc = "compare"
    /\ measured' = Append(measured, output_pdf)
    /\ compressed_size' = get_file_size(output_pdf)
    /\ IF ReductionRaises(original_size)
       THEN \* the ZeroDivisionError leaves main() with a traceback
            /\ pc' = "done"
            /\ result' = "Crashed"
            /\ out' = out \o <<"traceback">>
            /\ UNCHANGED <<i, reduction, success, fs, removed>>
       ELSE /\ reduction' = Reduction(original_size, compressed_size')
            /\ IF Accepts(compressed_size', original_size)
               THEN /\ success' = TRUE
                    /\ out' = out \o <<"success">>
                    /\ pc' = AfterAccept(i)
                    /\ i' = IF pc' = "report" THEN i ELSE i + 1
                    /\ UNCHANGED <<fs, removed, result>>
               ELSE /\ out' = out \o <<"next_level">>
                    /\ fs' = RejectedFs(output_pdf)
                    /\ removed' = Append(removed, output_pdf)
                    /\ i' = i + 1
                    /\ pc' = AfterBody(i)
                    /\ UNCHANGED <<success, result>>
    /\ UNCHANGED <<world, input_pdf, output_pdf, original_size, engine,
                   subprocs, attempts, checked>>

\* lines 159-164
Report ==
    /\ pc = "report"
    /\ IF ~success
       THEN /\ out' = out \o <<"no_reduction">>
            /\ result' = "Exhausted"
       ELSE /\ result' = "Accepted"
            /\ UNCHANGED out
    /\ pc' = "done"
    /\ UNCHANGED <<world, locals, engine, fs, subprocs, removed, attempts,
                   checked, measured>>

\* The quality level named in the success message: the loop variable
\* `quality`, which holds the level of the last compress_pdf call.
AcceptedQuality ==
    IF result = "Accepted" THEN attempts[Len(attempts)].quality ELSE "none"

\* The user runs the program again with the same argument.
Rerun ==
    /\ pc = "done"
    /\ run < MaxRuns
    /\ run' = run + 1
    /\ prev' = [result |-> result, quality |-> AcceptedQuality]
    /\ fs0' = fs
    /\ pc' = "start"
    /\ i' = 1
    /\ input_pdf' = <<>>
    /\ output_pdf' = <<>>
    /\ original_size' = NoSize
    /\ compressed_size' = NoSize
    /\ reduction' = NoReduction
    /\ success' = FALSE
    /\ subprocs' = <<>>
    /\ removed' = <<>>
    /\ out' = <<>>
    /\ attempts' = <<>>
    /\ checked' = <<>>
    /\ measured' = <<>>
    /\ result' = "running"
    /\ UNCHANGED <<argc, argv1, gsEnv, engine, fs>>

Next ==
    \/ CheckArgs
    \/ check_ghostscript
    \/ CheckInput
    \/ Prepare
    \/ compress_pdf(input_pdf, output_pdf, quality_levels[i])
    \/ CompareSizes
    \/ Report
    \/ Rerun

Spec == Init /\ [][Next]_vars

-----------------------------------------------------------------------------
(* Vocabulary of the properties *)

IsConversion(s) == s.flag # "--version"
IsStarted(s) == s.started
Conversions == SelectSeq(subprocs, IsConversion)

\* The last compress_pdf call of the run.
LastAttempt == attempts[Len(attempts)]

\* An engine run that succeeded with a file strictly smaller than the input.
Shrinks(a) == a.ok /\ a.size < original_size.bytes

\* The run got past the version check and the input validation.
PastValidation == measured # <<>>

\* A file written by a compress_pdf call of the current run is at path p.
FromThisRun(p) == fs[p].exists /\ fs[p].run = run

-----------------------------------------------------------------------------
(* C1: a run whose input path fails check_pdf (missing, or not named       *)
(* *.pdf) aborts before any subprocess call of the engine, whether the     *)
(* version query or a conversion, and creates no output file.              *)
C1_InvalidInputNoSubprocess ==
    (argc = 2 /\ ~check_pdf(argv1)) =>
        (SelectSeq(subprocs, IsStarted) = <<>> /\ fs = fs0)

(* C2: whenever a result is accepted, it is the result of the first preset *)
(* of printer, ebook, screen whose engine run succeeded with a size        *)
(* strictly smaller than the original, and no preset is invoked after it.  *)
C2_FirstSuccessPolicy ==
    success =>
        /\ Len(attempts) \in 1..Len(quality_levels)
        /\ \A k \in 1..Len(attempts) : attempts[k].quality = quality_levels[k]
        /\ Shrinks(LastAttempt)
        /\ \A k \in 1..(Len(attempts) - 1) : ~Shrinks(attempts[k])
        /\ Len(Conversions) = Len(attempts)
        /\ fs[output_pdf] = File(LastAttempt.size, run, LastAttempt.quality)

\* A run accepted the second preset after the first one succeeded with a
\* file that was not smaller, and has ended.
C2_Witness ==
    /\ result = "Accepted"
    /\ Len(attempts) = 2
    /\ attempts[1].ok
    /\ attempts[1].size > original_size.bytes

(* C3: after every preset attempt in which compress_pdf succeeded with a   *)
(* compressed size >= the original size (an original size of 0 included),  *)
(* the produced file is no longer at the output path and the loop has      *)
(* moved on to the next preset.                                            *)
C3_RejectedFileRemoved ==
    ( /\ attempts # <<>>
      /\ pc # "compare"
      /\ LastAttempt.ok
      /\ LastAttempt.size >= original_size.bytes )
    => ( /\ ~fs[output_pdf].exists
         /\ pc \in {"loop", "report", "done"}
         /\ result # "Crashed" )

(* C4: if each of the three attempts ended with an engine failure or       *)
(* succeeded with a size >= the original, then when the run has ended no   *)
(* file is at the output path and exhaustion was reported.  The file       *)
(* looked for is one the run's own attempts left; a file that was at the   *)
(* output path before the run and was never touched is not counted, and   *)
(* only runs on a non-empty input are looked at.                           *)
C4_ExhaustedLeavesNoOutput ==
    ( /\ pc = "done"
      /\ original_size.bytes > 0
      /\ Len(attempts) = Len(quality_levels)
      /\ \A k \in 1..Len(attempts) :
            ~attempts[k].ok \/ attempts[k].size >= original_size.bytes )
    => ( /\ ~FromThisRun(output_pdf)
         /\ result = "Exhausted"
         /\ \E k \in 1..Len(out) : out[k] = "no_reduction" )

(* C5: when check_ghostscript fails (binary not found, version not         *)
(* starting with 10.04, or any other error of the call), the run aborts at *)
(* once: compress_pdf is never called, the input is neither validated nor  *)
(* measured, and nothing is created or removed at the output path.         *)
C5_EngineCheckFailureAborts ==
    ( /\ argc = 2
      /\ \/ gsEnv.kind # "runs"
         \/ ~StartsWith(Strip(gsEnv.stdout), Str_10_04) )
    => ( /\ pc \in {"start", "check_gs", "done"}
         /\ pc = "done" => result = "EngineAbort"
         /\ attempts = <<>>
         /\ Conversions = <<>>
         /\ checked = <<>>
         /\ measured = <<>>
         /\ removed = <<>>
         /\ fs = fs0 )

\* A run was aborted by an unsupported version although its input was a
\* valid, existing PDF path.
C5_Witness ==
    /\ result = "EngineAbort"
    /\ gsEnv.kind = "runs"
    /\ gsEnv.stdout # <<>>
    /\ fs[argv1].exists
    /\ EndsWith(Lower(argv1), Str_pdf)

(* C6: an engine failure at one preset neither aborts the run nor is       *)
(* retried: the loop moves to the next preset without measuring the        *)
(* output, so each preset is invoked at most once per run, in the order    *)
(* printer, ebook, screen.                                                 *)
C6_FailureAdvancesOnce ==
    /\ Len(attempts) <= Len(quality_levels)
    /\ Len(Conversions) = Len(attempts)
    /\ \A k \in 1..Len(attempts) :
        /\ attempts[k].quality = quality_levels[k]
        /\ Conversions[k].flag = quality_settings(quality_levels[k])
        /\ ~attempts[k].ok =>
            \/ k < Len(attempts)
            \/ k < Len(quality_levels) /\ pc = "loop" /\ i = k + 1
            \/ k = Len(quality_levels) /\ pc = "report"
            \/ k = Len(quality_levels) /\ pc = "done" /\ result = "Exhausted"
    /\ PastValidation =>
        Len(measured) - 1 =
            Cardinality({k \in 1..Len(attempts) : attempts[k].ok})
            - (IF pc = "compare" THEN 1 ELSE 0)

\* The first preset failed and the second one has been invoked.
C6_Witness ==
    /\ Len(attempts) >= 2
    /\ ~attempts[1].ok
    /\ attempts[2].quality = "ebook"

(* C7: whenever a second or third preset attempt is about to start, no     *)
(* file produced by an earlier attempt of the same run is at the output    *)
(* path.                                                                   *)
C7_NoLeftoverBeforeNextAttempt ==
    (pc = "loop" /\ i > 1) => ~FromThisRun(output_pdf)

(* C8: every run that got past the version check and the input validation  *)
(* ends as Accepted or as Exhausted and in no other way, after at most     *)
(* three engine conversions.                                               *)
C8_OnlyAcceptedOrExhausted ==
    (PastValidation /\ pc = "done") =>
        /\ result \in {"Accepted", "Exhausted"}
        /\ Len(Conversions) <= Len(quality_levels)

(* C9: a run on the same input after a run that ended in acceptance, with  *)
(* the engine behaving the same per preset, ends in acceptance with the    *)
(* same preset.                                                            *)
C9_RerunSameAcceptedPreset ==
    (run > 1 /\ prev.result = "Accepted") =>
        /\ result \in {"running", "Accepted"}
        /\ pc = "done" => AcceptedQuality = prev.quality
        /\ pc = "start" => FromThisRun(OutputPath(argv1)) = FALSE
                           /\ fs[OutputPath(argv1)].exists

\* A second run ended accepting the second preset, as the first run did,
\* having rejected the first preset's output in between.
C9_Witness ==
    /\ run = 2
    /\ prev.result = "Accepted"
    /\ prev.quality = "ebook"
    /\ result = "Accepted"
    /\ removed # <<>>

(* C10: the input file is never written or deleted: the output path        *)
(* differs from the input path and ends in _compressed.pdf, the engine is  *)
(* only given the output path to write, os.remove is only applied to the   *)
(* output path, and the input file is as it was when the run started.      *)
C10_InputUntouched ==
    /\ fs[argv1] = fs0[argv1]
    /\ PastValidation =>
        /\ output_pdf # input_pdf
        /\ EndsWith(output_pdf, Str_compressed_pdf)
        /\ fs[input_pdf].exists
    /\ \A k \in 1..Len(Conversions) :
        /\ Conversions[k].outp = output_pdf
        /\ Conversions[k].outp # input_pdf
        /\ Conversions[k].inp = input_pdf
    /\ \A k \in 1..Len(removed) :
        removed[k] = output_pdf /\ removed[k] # input_pdf

\* A run that wrote the output twice and removed it once has ended, for an
\* input whose name is only an extension.
C10_Witness ==
    /\ result = "Accepted"
    /\ Len(removed) = 1
    /\ Len(Conversions) = 2
    /\ SplitextRoot(input_pdf) = input_pdf

====
